---- MODULE Spec2Model ----
(***************************************************************************)
(* Ink!FundMe: the crowdfunding contract (campaign escrow) together with   *)
(* the ERC20-style token contract it pays through.                         *)
(*                                                                         *)
(* The contract messages are the Rust listings of src/unnamed/part_005.    *)
(* The token contract and the helper get_campaign_mut are not part of the  *)
(* listings; they are modelled from the specification (TokenLedger, 4.1).  *)
(* U256 amounts are modelled as the integers 0..MaxU256.                   *)
(***************************************************************************)
EXTENDS Integers, Sequences, FiniteSets, TLC

\* ------------------------------------------------------------------ bounds
\* Largest value of the amount type (U256 in the contract, scaled down).
MaxU256 == 3
\* Campaigns that may be created (next_campaign_id is a u32 in the contract):
\* in the runs with several campaigns, and in the runs with few.
MaxCampaigns == 2
FewCampaigns == 1
\* Largest block timestamp reached.
MaxTime == 2

\* The externally owned accounts, and the account of the contract itself
\* (self.env().account_id()), which holds the escrowed tokens.
Users == {"alice", "bob"}
Escrow == "escrow"
Accounts == Users \cup {Escrow}
Amounts == 0..MaxU256
Times == 0..MaxTime
\* Deadlines tried: those a block timestamp can still pass.
Deadlines == 0..(MaxTime - 1)
Titles == {"t"}
Ids == 0..(MaxCampaigns - 1)
\* The spenders that users approve: the contract, which pulls contributions.
Spenders == {Escrow}

VARIABLES
    balances,          \* token: account -> balance
    allowances,        \* token: <<owner, spender>> -> allowance
    total_supply,      \* token: total minted supply
    campaigns,         \* InkFundMe.campaigns (StorageVec<Campaign>)
    contributions,     \* InkFundMe.contributions: <<campaign_id, contributor>> -> amount
    next_campaign_id,  \* InkFundMe.next_campaign_id
    now,               \* self.env().block_timestamp()
    finalized,         \* history: campaign_id -> the successful finalize calls on it
    refunded,          \* history: <<campaign_id, contributor>> -> the refunds paid
    card               \* ContractCard: its React state and its queries in flight

vars == <<balances, allowances, total_supply, campaigns, contributions,
          next_campaign_id, now, finalized, refunded, card>>

\* The storage of the two contracts.
ledger == <<balances, allowances, total_supply, campaigns, contributions,
            next_campaign_id>>

\* ------------------------------------------------------------------ token
\* Result of a token message: the error kind ("Ok" on success) and the
\* token state after it.
TokenResult(res, b, a, s) ==
    [res |-> res, balances |-> b, allowances |-> a, total_supply |-> s]

\* A mint without the range check: balance and supply wrap around.
mint_wrapping(b, a, s, to, amount) ==
    TokenResult("Ok", [b EXCEPT ![to] = (@ + amount) % (MaxU256 + 1)], a,
                (s + amount) % (MaxU256 + 1))

\* A mint that credits the account and leaves the supply as it was.
mint_supply_kept(b, a, s, to, amount) ==
    IF b[to] + amount > MaxU256 \/ s + amount > MaxU256
    THEN TokenResult("Overflow", b, a, s)
    ELSE TokenResult("Ok", [b EXCEPT ![to] = @ + amount], a, s)

\* mint(to, amount)
mint(b, a, s, to, amount) ==
    IF b[to] + amount > MaxU256 \/ s + amount > MaxU256
    THEN TokenResult("Overflow", b, a, s)
    ELSE TokenResult("Ok", [b EXCEPT ![to] = @ + amount], a, s + amount)

\* A transfer that credits the receiver and does not debit the sender.
transfer_credit_only(b, a, s, from, to, amount) ==
    IF b[from] < amount
    THEN TokenResult("InsufficientBalance", b, a, s)
    ELSE TokenResult("Ok", [b EXCEPT ![to] = @ + amount], a, s)

\* transfer(from, to, amount)
transfer(b, a, s, from, to, amount) ==
    IF b[from] < amount
    THEN TokenResult("InsufficientBalance", b, a, s)
    ELSE LET debited == [b EXCEPT ![from] = @ - amount]
         IN  TokenResult("Ok", [debited EXCEPT ![to] = @ + amount], a, s)

\* approve(owner, spender, amount)
approve(b, a, s, owner, spender, amount) ==
    TokenResult("Ok", b, [a EXCEPT ![<<owner, spender>>] = amount], s)

\* A transferFrom that spends on behalf without using up the allowance.
transfer_from_allowance_kept(b, a, s, spender, owner, to, amount) ==
    IF a[<<owner, spender>>] < amount
    THEN TokenResult("InsufficientAllowance", b, a, s)
    ELSE IF b[owner] < amount
    THEN TokenResult("InsufficientBalance", b, a, s)
    ELSE TokenResult("Ok", [[b EXCEPT ![owner] = @ - amount]
                               EXCEPT ![to] = @ + amount], a, s)

\* transferFrom(spender, owner, to, amount)
transfer_from(b, a, s, spender, owner, to, amount) ==
    IF a[<<owner, spender>>] < amount
    THEN TokenResult("InsufficientAllowance", b, a, s)
    ELSE LET t == transfer(b, a, s, owner, to, amount)
         IN  IF t.res # "Ok"
             THEN TokenResult(t.res, b, a, s)
             ELSE TokenResult("Ok", t.balances,
                              [a EXCEPT ![<<owner, spender>>] = @ - amount], s)

\* ------------------------------------------------------------- InkFundMe
\* What a message of the contract returns (the error kind, "Ok" on success),
\* the storage it leaves and the events it emitted.
Outcome(res, t, cs, ks, nid, ev) ==
    [res |-> res, balances |-> t.balances, allowances |-> t.allowances,
     total_supply |-> t.total_supply, campaigns |-> cs, contributions |-> ks,
     next_campaign_id |-> nid, events |-> ev]

\* The token state as it stands.
Token == TokenResult("Ok", balances, allowances, total_supply)

\* A refused message that still emits an event for the refusal.
Rejected_with_event(res) ==
    Outcome(res, Token, campaigns, contributions, next_campaign_id,
            <<[type |-> res]>>)

\* A message that returns `res` having written nothing.
Rejected(res) ==
    Outcome(res, Token, campaigns, contributions, next_campaign_id, <<>>)

\* get_campaign_mut(campaign_id): the stored campaign, CampaignNotFound if absent.
CampaignFound(campaign_id) == campaign_id < Len(campaigns)
get_campaign_mut(campaign_id) == campaigns[campaign_id + 1]

\* get_campaign that takes the last stored id for out of range.
get_campaign_last_missing(campaign_id) ==
    IF campaign_id + 1 >= Len(campaigns)
    THEN [res |-> "CampaignNotFound"]
    ELSE [res |-> "Ok", value |-> campaigns[campaign_id + 1]]

\* get_campaign(campaign_id): Err(CampaignNotFound) or Ok(campaign)
get_campaign(campaign_id) ==
    IF campaign_id >= Len(campaigns)
    THEN [res |-> "CampaignNotFound"]
    ELSE [res |-> "Ok", value |-> campaigns[campaign_id + 1]]

\* get_all_campaigns: the campaigns at 0 .. len - 1, pushed in that order.
get_all_campaigns == [i \in 1..Len(campaigns) |-> campaigns[i]]

\* get_token_address: the account of the token contract set at deployment.
get_token_address == "token"

\* self.contributions.get((campaign_id, caller)).unwrap_or(U256::zero())
get_contribution(campaign_id, contributor) ==
    contributions[<<campaign_id, contributor>>]

\* Option::None of checked_add (no amount is negative).
None == -1

\* A checked_add over a signed type: half the range of the token's.
checked_add_signed(x, y) == IF x + y > MaxU256 \div 2 THEN None ELSE x + y

\* A checked_add over a narrower integer type than the token's.
checked_add_narrow(x, y) == IF x + y > MaxU256 - 1 THEN None ELSE x + y

\* A checked_add whose sum is dropped: raised keeps its value.
checked_add_lost(x, y) == IF x + y > MaxU256 THEN None ELSE x

\* U256::checked_add: the sum, or None when it leaves the range.
checked_add(x, y) == IF x + y > MaxU256 THEN None ELSE x + y

\* create_campaign that accepts a deadline equal to the block timestamp.
create_campaign_deadline_now(caller, title, description, goal, deadline) ==
    IF goal = 0 \/ deadline < now
    THEN Rejected("InvalidParameters")
    ELSE Outcome("Ok", Token,
                 Append(campaigns,
                        [id |-> next_campaign_id, title |-> title,
                         description |-> description, goal |-> goal,
                         deadline |-> deadline, owner |-> caller,
                         raised |-> 0, completed |-> FALSE]),
                 contributions, next_campaign_id + 1,
                 <<[type |-> "CampaignCreated", id |-> next_campaign_id,
                    owner |-> caller, goal |-> goal, deadline |-> deadline]>>)

\* create_campaign that does not advance next_campaign_id.
create_campaign_id_stuck(caller, title, description, goal, deadline) ==
    IF goal = 0 \/ deadline <= now
    THEN Rejected("InvalidParameters")
    ELSE Outcome("Ok", Token,
                 Append(campaigns,
                        [id |-> next_campaign_id, title |-> title,
                         description |-> description, goal |-> goal,
                         deadline |-> deadline, owner |-> caller,
                         raised |-> 0, completed |-> FALSE]),
                 contributions, next_campaign_id,
                 <<[type |-> "CampaignCreated", id |-> next_campaign_id,
                    owner |-> caller, goal |-> goal, deadline |-> deadline]>>)

\* create_campaign without the check of the goal.
create_campaign_any_goal(caller, title, description, goal, deadline) ==
    IF deadline <= now
    THEN Rejected("InvalidParameters")
    ELSE Outcome("Ok", Token,
                 Append(campaigns,
                        [id |-> next_campaign_id, title |-> title,
                         description |-> description, goal |-> goal,
                         deadline |-> deadline, owner |-> caller,
                         raised |-> 0, completed |-> FALSE]),
                 contributions, next_campaign_id + 1,
                 <<[type |-> "CampaignCreated", id |-> next_campaign_id,
                    owner |-> caller, goal |-> goal, deadline |-> deadline]>>)

\* get_campaign_count: self.campaigns.len()
get_campaign_count == Len(campaigns)

\* The value create_campaign returns: Ok(campaign_id), None for an Err.
create_campaign_returns(goal, deadline) ==
    IF goal = 0 \/ deadline <= now THEN None ELSE next_campaign_id

create_campaign(caller, title, description, goal, deadline) ==
    IF goal = 0 \/ deadline <= now
    THEN Rejected("InvalidParameters")
    ELSE LET campaign_id == next_campaign_id
             campaign == [id |-> campaign_id, title |-> title,
                          description |-> description, goal |-> goal,
                          deadline |-> deadline, owner |-> caller,
                          raised |-> 0, completed |-> FALSE]
         IN  Outcome("Ok", Token, Append(campaigns, campaign), contributions,
                     next_campaign_id + 1,
                     <<[type |-> "CampaignCreated", id |-> campaign_id,
                        owner |-> caller, goal |-> goal, deadline |-> deadline]>>)

\* contribute without the check of the deadline.
contribute_checks_no_deadline(caller, campaign_id) ==
    IF campaign_id >= Len(campaigns) THEN "CampaignNotFound"
    ELSE IF campaigns[campaign_id + 1].completed THEN "CampaignCompleted"
    ELSE "Ok"

\* contribute without the check of the completed flag.
contribute_checks_no_completed(caller, campaign_id) ==
    IF campaign_id >= Len(campaigns) THEN "CampaignNotFound"
    ELSE IF now > campaigns[campaign_id + 1].deadline THEN "DeadlineReached"
    ELSE "Ok"

\* contribute that only checks that the campaign exists.
contribute_checks_found_only(caller, campaign_id) ==
    IF campaign_id >= Len(campaigns) THEN "CampaignNotFound" ELSE "Ok"

\* contribute that is closed once the goal is reached.
contribute_checks_capped(caller, campaign_id) ==
    IF campaign_id >= Len(campaigns) THEN "CampaignNotFound"
    ELSE IF campaigns[campaign_id + 1].completed THEN "CampaignCompleted"
    ELSE IF now > campaigns[campaign_id + 1].deadline THEN "DeadlineReached"
    ELSE IF campaigns[campaign_id + 1].raised >= campaigns[campaign_id + 1].goal
    THEN "InvalidParameters"
    ELSE "Ok"

\* contribute with the deadline checked before the completed flag.
contribute_checks_deadline_first(caller, campaign_id) ==
    IF campaign_id >= Len(campaigns) THEN "CampaignNotFound"
    ELSE IF now > campaigns[campaign_id + 1].deadline THEN "DeadlineReached"
    ELSE IF campaigns[campaign_id + 1].completed THEN "CampaignCompleted"
    ELSE "Ok"

\* contribute that is closed from the deadline itself on.
contribute_checks_deadline_inclusive(caller, campaign_id) ==
    IF campaign_id >= Len(campaigns) THEN "CampaignNotFound"
    ELSE IF campaigns[campaign_id + 1].completed THEN "CampaignCompleted"
    ELSE IF now >= campaigns[campaign_id + 1].deadline THEN "DeadlineReached"
    ELSE "Ok"

\* The checks of contribute before it touches the token: the error, or "Ok".
contribute_checks(caller, campaign_id) ==
    IF ~CampaignFound(campaign_id) THEN "CampaignNotFound"
    ELSE IF get_campaign_mut(campaign_id).completed THEN "CampaignCompleted"
    ELSE IF now > get_campaign_mut(campaign_id).deadline THEN "DeadlineReached"
    ELSE "Ok"

\* The amount is added to the entry twice.
contribute_entry_doubled(contribution, amount) == contribution + amount + amount

\* The entry is not written: the contributor keeps what was held.
contribute_entry_unchanged(contribution, amount) == contribution

\* The entry is overwritten with the amount instead of accumulated.
contribute_entry_overwrite(contribution, amount) == amount

\* The entry contribute stores for a contributor who held `contribution`.
contribute_entry(contribution, amount) == contribution + amount

contribute(caller, campaign_id, amount) ==
    IF contribute_checks(caller, campaign_id) # "Ok"
    THEN Rejected(contribute_checks(caller, campaign_id))
    ELSE LET campaign == get_campaign_mut(campaign_id)
             t == transfer_from(balances, allowances, total_supply,
                                Escrow, caller, Escrow, amount)
             raised == checked_add(campaign.raised, amount)
             contribution == get_contribution(campaign_id, caller)
         IN  IF t.res # "Ok" THEN Rejected(t.res)
             ELSE IF raised = None
             THEN \* ok_or(Error::Overflow)?: returns after the token transfer was made
                  Outcome("Overflow", t, campaigns, contributions,
                          next_campaign_id, <<>>)
             ELSE IF contribution + amount > MaxU256
             THEN \* U256 `+` panics: the call traps and the transaction is reverted
                  Rejected("Panic")
             ELSE Outcome("Ok", t,
                          [campaigns EXCEPT ![campaign_id + 1].raised = raised],
                          [contributions EXCEPT ![<<campaign_id, caller>>] =
                              contribute_entry(contribution, amount)],
                          next_campaign_id,
                          <<[type |-> "ContributionMade", campaign_id |-> campaign_id,
                             contributor |-> caller, amount |-> amount]>>)

\* finalize that is open from the deadline itself on.
finalize_checks_deadline_strict(caller, campaign_id) ==
    IF campaign_id >= Len(campaigns) THEN "CampaignNotFound"
    ELSE IF caller # campaigns[campaign_id + 1].owner THEN "OnlyOwner"
    ELSE IF campaigns[campaign_id + 1].completed THEN "CampaignCompleted"
    ELSE IF now < campaigns[campaign_id + 1].deadline THEN "DeadlineNotReached"
    ELSE "Ok"

\* finalize without the check of the completed flag.
finalize_checks_no_completed(caller, campaign_id) ==
    IF campaign_id >= Len(campaigns) THEN "CampaignNotFound"
    ELSE IF caller # campaigns[campaign_id + 1].owner THEN "OnlyOwner"
    ELSE IF now <= campaigns[campaign_id + 1].deadline THEN "DeadlineNotReached"
    ELSE "Ok"

\* finalize with the owner check made after the state checks.
finalize_checks_owner_last(caller, campaign_id) ==
    IF campaign_id >= Len(campaigns) THEN "CampaignNotFound"
    ELSE IF campaigns[campaign_id + 1].completed THEN "CampaignCompleted"
    ELSE IF now <= campaigns[campaign_id + 1].deadline THEN "DeadlineNotReached"
    ELSE IF caller # campaigns[campaign_id + 1].owner THEN "OnlyOwner"
    ELSE "Ok"

\* The checks of finalize before it writes: the error, or "Ok".
finalize_checks(caller, campaign_id) ==
    IF ~CampaignFound(campaign_id) THEN "CampaignNotFound"
    ELSE IF caller # get_campaign_mut(campaign_id).owner THEN "OnlyOwner"
    ELSE IF get_campaign_mut(campaign_id).completed THEN "CampaignCompleted"
    ELSE IF now <= get_campaign_mut(campaign_id).deadline THEN "DeadlineNotReached"
    ELSE "Ok"

\* No finalized campaign counts as successful.
is_success_never(campaign) == campaign.raised < 0

\* Every finalized campaign counts as successful.
is_success_always(campaign) == campaign.raised >= 0

\* The comparison of raised and goal turned around.
is_success_flipped(campaign) == campaign.raised <= campaign.goal

\* let success = campaign.raised >= campaign.goal
is_success(campaign) == campaign.raised >= campaign.goal

\* The owner is paid whatever the escrow account holds.
payout_escrow(campaign) == balances[Escrow]

\* The owner is paid the goal instead of the amount raised.
payout_goal(campaign) == campaign.goal

\* The amount finalize transfers to the owner of a successful campaign.
payout(campaign) == campaign.raised

finalize(caller, campaign_id) ==
    IF finalize_checks(caller, campaign_id) # "Ok"
    THEN Rejected(finalize_checks(caller, campaign_id))
    ELSE LET campaign == get_campaign_mut(campaign_id)
             completed == [campaigns EXCEPT ![campaign_id + 1].completed = TRUE]
             success == is_success(campaign)
             t == IF success
                  THEN transfer(balances, allowances, total_supply,
                                Escrow, campaign.owner, payout(campaign))
                  ELSE Token
         IN  IF t.res # "Ok"
             THEN \* transfer(..)?: returns after completed was set
                  Outcome(t.res, Token, completed, contributions,
                          next_campaign_id, <<>>)
             ELSE Outcome("Ok", t, completed, contributions, next_campaign_id,
                          <<[type |-> "CampaignFinalized",
                             campaign_id |-> campaign_id, success |-> success]>>)

\* claim_refund that turns the owner of the campaign away.
claim_refund_checks_not_owner(caller, campaign_id) ==
    IF campaign_id >= Len(campaigns) THEN "CampaignNotFound"
    ELSE IF ~campaigns[campaign_id + 1].completed THEN "CampaignNotCompleted"
    ELSE IF campaigns[campaign_id + 1].raised >= campaigns[campaign_id + 1].goal
    THEN "CampaignSuccessful"
    ELSE IF caller = campaigns[campaign_id + 1].owner THEN "OnlyOwner"
    ELSE IF contributions[<<campaign_id, caller>>] = 0 THEN "NoContribution"
    ELSE "Ok"

\* claim_refund without the check that the campaign failed.
claim_refund_checks_no_success(caller, campaign_id) ==
    IF campaign_id >= Len(campaigns) THEN "CampaignNotFound"
    ELSE IF ~campaigns[campaign_id + 1].completed THEN "CampaignNotCompleted"
    ELSE IF contributions[<<campaign_id, caller>>] = 0 THEN "NoContribution"
    ELSE "Ok"

\* claim_refund without the check of the completed flag.
claim_refund_checks_no_completed(caller, campaign_id) ==
    IF campaign_id >= Len(campaigns) THEN "CampaignNotFound"
    ELSE IF campaigns[campaign_id + 1].raised >= campaigns[campaign_id + 1].goal
    THEN "CampaignSuccessful"
    ELSE IF contributions[<<campaign_id, caller>>] = 0 THEN "NoContribution"
    ELSE "Ok"

\* The checks of claim_refund before it writes: the error, or "Ok".
claim_refund_checks(caller, campaign_id) ==
    IF ~CampaignFound(campaign_id) THEN "CampaignNotFound"
    ELSE IF ~get_campaign_mut(campaign_id).completed THEN "CampaignNotCompleted"
    ELSE IF is_success(get_campaign_mut(campaign_id)) THEN "CampaignSuccessful"
    ELSE IF get_contribution(campaign_id, caller) = 0 THEN "NoContribution"
    ELSE "Ok"

\* The caller's entries of all campaigns are cleared, not this one alone.
clear_contribution_caller(campaign_id, caller) ==
    [p \in DOMAIN contributions |->
        IF p[2] = caller THEN 0 ELSE contributions[p]]

\* Every entry of the campaign is cleared, not the caller's alone.
clear_contribution_campaign(campaign_id, caller) ==
    [p \in DOMAIN contributions |->
        IF p[1] = campaign_id THEN 0 ELSE contributions[p]]

\* The entry is left in place when the refund is paid.
clear_contribution_skipped(campaign_id, caller) == contributions

\* self.contributions.insert((campaign_id, caller), &U256::zero())
clear_contribution(campaign_id, caller) ==
    [contributions EXCEPT ![<<campaign_id, caller>>] = 0]

claim_refund(caller, campaign_id) ==
    IF claim_refund_checks(caller, campaign_id) # "Ok"
    THEN Rejected(claim_refund_checks(caller, campaign_id))
    ELSE LET contribution == get_contribution(campaign_id, caller)
             cleared == clear_contribution(campaign_id, caller)
             t == transfer(balances, allowances, total_supply,
                           Escrow, caller, contribution)
         IN  IF t.res # "Ok"
             THEN \* transfer(..)?: returns after the entry was cleared
                  Outcome(t.res, Token, campaigns, cleared, next_campaign_id, <<>>)
             ELSE Outcome("Ok", t, campaigns, cleared, next_campaign_id,
                          <<[type |-> "RefundClaimed", campaign_id |-> campaign_id,
                             contributor |-> caller, amount |-> contribution]>>)

\* ---------------------------------------------------------- ContractCard
\* The refreshes (runs of queryContracts) followed, each started once.
MaxRefreshes == 2
Refreshes == 1..MaxRefreshes

\* The wallet accounts that can be connected, and their contract addresses.
Signers == {"5alice", "5bob"}
ss58ToEthereum(signerAddress) ==
    IF signerAddress = "5alice" THEN "alice" ELSE "bob"

\* No account is connected: signerAddress is undefined.
NoSigner == "undefined"

\* A run of queryInkFundMeContract that has not started: `at` is where it
\* stands, `count` and `list` what its queries were answered.
Idle == [at |-> "idle", count |-> 0, list |-> <<>>]

\* How a contract.query ends: with a response, with success = false, or by
\* throwing into the catch of queryInkFundMeContract.
QueryResults == {"success", "failure", "throw"}

\* The component as mounted: useState([]), useState(0), nobody connected.
ContractCard ==
    [signerAddress |-> NoSigner, campaigns |-> <<>>, campaignCount |-> 0,
     refresh |-> [r \in Refreshes |-> Idle]]

\* ---------------------------------------------------------------- actions
Init ==
    /\ balances = [x \in Accounts |-> 0]
    /\ allowances = [p \in Accounts \X Accounts |-> 0]
    /\ total_supply = 0
    /\ campaigns = <<>>
    /\ contributions = [p \in Ids \X Users |-> 0]
    /\ next_campaign_id = 0
    /\ now = 0
    /\ finalized = [id \in Ids |-> <<>>]
    /\ refunded = [p \in Ids \X Users |-> <<>>]
    /\ card = ContractCard

\* A message of the token contract was executed with result t.
TokenCall(t) ==
    /\ balances' = t.balances
    /\ allowances' = t.allowances
    /\ total_supply' = t.total_supply
    /\ UNCHANGED <<campaigns, contributions, next_campaign_id, now,
                   finalized, refunded, card>>

\* A message of the InkFundMe contract was executed with outcome o.
ContractCall(o) ==
    /\ balances' = o.balances
    /\ allowances' = o.allowances
    /\ total_supply' = o.total_supply
    /\ campaigns' = o.campaigns
    /\ contributions' = o.contributions
    /\ next_campaign_id' = o.next_campaign_id
    /\ UNCHANGED <<now, card>>

Mint(caller, to, amount) ==
    TokenCall(mint(balances, allowances, total_supply, to, amount))

Transfer(caller, to, amount) ==
    TokenCall(transfer(balances, allowances, total_supply, caller, to, amount))

Approve(caller, spender, amount) ==
    TokenCall(approve(balances, allowances, total_supply, caller, spender, amount))

TransferFrom(caller, owner, to, amount) ==
    TokenCall(transfer_from(balances, allowances, total_supply, caller, owner, to, amount))

CreateCampaign(caller, title, description, goal, deadline) ==
    /\ ContractCall(create_campaign(caller, title, description, goal, deadline))
    /\ UNCHANGED <<finalized, refunded>>

Contribute(caller, campaign_id, amount) ==
    /\ ContractCall(contribute(caller, campaign_id, amount))
    /\ UNCHANGED <<finalized, refunded>>

\* The tokens that left the escrow account in a call with outcome o.
Paid(o) == balances[Escrow] - o.balances[Escrow]

Finalize(caller, campaign_id) ==
    LET o == finalize(caller, campaign_id)
    IN  /\ ContractCall(o)
        /\ finalized' = IF o.res = "Ok"
                        THEN [finalized EXCEPT ![campaign_id] =
                                Append(@, [success |-> o.events[1].success,
                                           paid |-> Paid(o)])]
                        ELSE finalized
        /\ UNCHANGED refunded

ClaimRefund(caller, campaign_id) ==
    LET o == claim_refund(caller, campaign_id)
    IN  /\ ContractCall(o)
        /\ refunded' = IF o.res = "Ok"
                       THEN [refunded EXCEPT ![<<campaign_id, caller>>] =
                               Append(@, Paid(o))]
                       ELSE refunded
        /\ UNCHANGED finalized

\* The block timestamp advances.
Tick ==
    /\ now < MaxTime
    /\ now' = now + 1
    /\ UNCHANGED <<ledger, finalized, refunded, card>>

\* One message call by a user, or a clock tick.  `in` gives the inputs tried:
\* at most in.most campaigns are created, in.minters mint to in.mintees,
\* tokens are sent to in.payees, allowances are set to in.limits, the amounts
\* in.pulled are pulled with transfer_from, campaigns get the goals in.goals.
Step(in) ==
    \/ \E caller \in in.minters, to \in in.mintees, amount \in Amounts :
          Mint(caller, to, amount)
    \/ \E caller \in Users, to \in in.payees, amount \in Amounts :
          Transfer(caller, to, amount)
    \/ \E caller \in Users, spender \in Spenders, amount \in in.limits :
          Approve(caller, spender, amount)
    \/ \E caller \in Users, owner \in Users, amount \in in.pulled :
          TransferFrom(caller, owner, caller, amount)
    \/ \E caller \in Users, title \in Titles, description \in Titles,
          goal \in in.goals, deadline \in Deadlines :
          /\ next_campaign_id < in.most \/ goal = 0 \/ deadline <= now
          /\ CreateCampaign(caller, title, description, goal, deadline)
    \/ \E caller \in Users, id \in Ids, amount \in Amounts : Contribute(caller, id, amount)
    \/ \E caller \in Users, id \in Ids : Finalize(caller, id)
    \/ \E caller \in Users, id \in Ids : ClaimRefund(caller, id)
    \/ Tick

\* Few campaigns, with every amount tried as transfer, allowance and goal.
Next ==
    Step([most |-> FewCampaigns, minters |-> Users, mintees |-> Accounts,
          payees |-> Accounts, limits |-> Amounts, pulled |-> Amounts,
          goals |-> Amounts])

Spec == Init /\ [][Next]_vars

\* Several campaigns sharing the escrow account; users pay the contract only,
\* approve nothing or everything, and set a goal of one token or of all.
NextMulti ==
    Step([most |-> MaxCampaigns, minters |-> {"alice"}, mintees |-> Users,
          payees |-> {Escrow}, limits |-> {0, MaxU256}, pulled |-> {0, MaxU256},
          goals |-> {0, 1, MaxU256}])

SpecMulti == Init /\ [][NextMulti]_vars

\* Every contributor who can get a refund asks for it in the end: a refund
\* that stays possible is not put off for ever.
RefundsClaimed ==
    \A caller \in Users, id \in Ids : WF_vars(ClaimRefund(caller, id))

\* Several campaigns with the highest goal, funded by allowances of
\* everything, next to payments made to the contract directly.
NextRefunds ==
    Step([most |-> MaxCampaigns, minters |-> {"alice"}, mintees |-> Users,
          payees |-> {Escrow}, limits |-> {MaxU256}, pulled |-> {0},
          goals |-> {MaxU256}])

SpecRefunds == Init /\ [][NextRefunds]_vars /\ RefundsClaimed

\* The token ledger on its own: users mint, pay, approve one another and spend
\* on one another's behalf, to any account.
NextToken ==
    \/ \E caller \in Users, to \in Accounts, amount \in Amounts :
          Mint(caller, to, amount)
    \/ \E caller \in Users, to \in Accounts, amount \in Amounts :
          Transfer(caller, to, amount)
    \/ \E caller \in Users, spender \in Users, amount \in Amounts :
          Approve(caller, spender, amount)
    \/ \E caller \in Users, owner \in Users, to \in Accounts, amount \in Amounts :
          TransferFrom(caller, owner, to, amount)

SpecToken == Init /\ [][NextToken]_vars

\* userEthAddress: the contract address of the connected account, or null.
userEthAddress ==
    IF card.signerAddress = NoSigner THEN NoSigner
    ELSE ss58ToEthereum(card.signerAddress)

\* myCampaigns: campaigns.filter(c => c.owner === userEthAddress), [] when
\* nobody is connected.
myCampaigns ==
    IF userEthAddress = NoSigner THEN <<>>
    ELSE LET Mine(c) == c.owner = userEthAddress
         IN  SelectSeq(card.campaigns, Mine)

myCampaignCount == Len(myCampaigns)

\* The label of the browse tab shows campaignCount, its content campaigns.
BrowseLabel == card.campaignCount
BrowseTab == card.campaigns

\* The content of the "my" tab: the empty notice when myCampaigns is empty,
\* and otherwise a card for each element of campaigns.
MyTab == IF Len(myCampaigns) = 0 THEN <<>> ELSE card.campaigns

\* A step of the component: the chain is left as it is.
CardStep(next) ==
    /\ card' = next
    /\ UNCHANGED <<ledger, now, finalized, refunded>>

\* The refresh that starts next, 0 when all the refreshes followed were used.
NextRefresh ==
    IF \E r \in Refreshes : card.refresh[r].at = "idle"
    THEN CHOOSE r \in Refreshes :
             /\ card.refresh[r].at = "idle"
             /\ \A q \in Refreshes : q < r => card.refresh[q].at # "idle"
    ELSE 0

\* queryContracts is called: queryInkFundMeContract issues its first query.
queryContracts ==
    [card EXCEPT !.refresh[NextRefresh].at = "count"]

\* useEffect(() => queryContracts(), [queryContracts]) at mount.
Mount ==
    /\ NextRefresh = 1
    /\ CardStep(queryContracts)

\* The connected account changes: queryContracts is rebuilt and, once the
\* component is mounted, run again by the effect.
SignerChanged(signerAddress) ==
    /\ signerAddress # card.signerAddress
    /\ NextRefresh # 0
    /\ CardStep(IF NextRefresh = 1
                THEN [card EXCEPT !.signerAddress = signerAddress]
                ELSE [queryContracts EXCEPT !.signerAddress = signerAddress])

\* CreateCampaignForm calls onCampaignCreated = queryContracts after a
\* campaign was created from it.
OnCampaignCreated ==
    /\ NextRefresh > 1
    /\ card.signerAddress # NoSigner
    /\ \E id \in 0..(Len(campaigns) - 1) :
          campaigns[id + 1].owner = userEthAddress
    /\ CardStep(queryContracts)

\* contract.query("get_campaign_count") is answered by the node.
CountAnswered(r, result) ==
    /\ card.refresh[r].at = "count"
    /\ CardStep(
         IF result = "success"
         THEN [card EXCEPT !.refresh[r] =
                  [at |-> "count_answered", count |-> get_campaign_count,
                   list |-> <<>>]]
         ELSE IF result = "failure"
         THEN [card EXCEPT !.refresh[r].at = "list"]
         ELSE [card EXCEPT !.refresh[r].at = "done"])

\* The await returns: setCampaignCount(response), then the next query.
SetCampaignCount(r) ==
    /\ card.refresh[r].at = "count_answered"
    /\ CardStep([card EXCEPT !.campaignCount = card.refresh[r].count,
                             !.refresh[r] = [at |-> "list", count |-> 0,
                                             list |-> <<>>]])

\* contract.query("get_all_campaigns") is answered by the node.
ListAnswered(r, result) ==
    /\ card.refresh[r].at = "list"
    /\ CardStep(
         IF result = "success"
         THEN [card EXCEPT !.refresh[r] =
                  [at |-> "list_answered", count |-> 0,
                   list |-> get_all_campaigns]]
         ELSE [card EXCEPT !.refresh[r].at = "done"])

\* The await returns: setCampaigns(response); the refresh is finished.
SetCampaigns(r) ==
    /\ card.refresh[r].at = "list_answered"
    /\ CardStep([card EXCEPT !.campaigns = card.refresh[r].list,
                             !.refresh[r] = [at |-> "done", count |-> 0,
                                             list |-> <<>>]])

\* The component next to users who create campaigns.
NextCard ==
    \/ \E caller \in Users, title \in Titles, deadline \in Deadlines :
          /\ next_campaign_id < MaxCampaigns
          /\ CreateCampaign(caller, title, title, MaxU256, deadline)
    \/ Mount
    \/ \E signerAddress \in Signers : SignerChanged(signerAddress)
    \/ OnCampaignCreated
    \/ \E r \in Refreshes, result \in QueryResults : CountAnswered(r, result)
    \/ \E r \in Refreshes : SetCampaignCount(r)
    \/ \E r \in Refreshes, result \in QueryResults : ListAnswered(r, result)
    \/ \E r \in Refreshes : SetCampaigns(r)

SpecCard == Init /\ [][NextCard]_vars

\* The queries take &self: they answer from the storage and write nothing.
GetCampaign(campaign_id) ==
    /\ get_campaign(campaign_id).res \in {"Ok", "CampaignNotFound"}
    /\ UNCHANGED vars

GetAllCampaigns ==
    /\ Len(get_all_campaigns) >= 0
    /\ UNCHANGED vars

GetContribution(campaign_id, contributor) ==
    /\ get_contribution(campaign_id, contributor) \in Amounts
    /\ UNCHANGED vars

GetCampaignCount ==
    /\ get_campaign_count >= 0
    /\ UNCHANGED vars

GetTokenAddress ==
    /\ get_token_address \notin Accounts
    /\ UNCHANGED vars

\* The messages of Next and the five queries.
NextQueries ==
    \/ Next
    \/ \E campaign_id \in 0..MaxCampaigns : GetCampaign(campaign_id)
    \/ GetAllCampaigns
    \/ \E campaign_id \in Ids, contributor \in Users :
          GetContribution(campaign_id, contributor)
    \/ GetCampaignCount
    \/ GetTokenAddress

SpecQueries == Init /\ [][NextQueries]_vars

\* ------------------------------------------------------------ properties
RECURSIVE SumOver(_, _)
\* The sum of f[x] over the x in S.
SumOver(f, S) ==
    IF S = {} THEN 0
    ELSE LET x == CHOOSE y \in S : TRUE
         IN  f[x] + SumOver(f, S \ {x})

RECURSIVE SumSeq(_)
\* The sum of the numbers of a sequence.
SumSeq(q) == IF q = <<>> THEN 0 ELSE Head(q) + SumSeq(Tail(q))

\* The ids of the stored campaigns.
Stored == 0..(Len(campaigns) - 1)

\* The sum of the contribution entries of a campaign.
Contributed(id) == SumOver([x \in Users |-> contributions[<<id, x>>]], Users)

\* The tokens refunded from a campaign so far.
Refunded(id) == SumOver([x \in Users |-> SumSeq(refunded[<<id, x>>])], Users)

\* No refund has been paid from the campaign.
NoRefundYet(id) == \A x \in Users : refunded[<<id, x>>] = <<>>

\* The storage part of an outcome is the storage as it stands.
Untouched(o) ==
    /\ o.balances = balances
    /\ o.allowances = allowances
    /\ o.total_supply = total_supply
    /\ o.campaigns = campaigns
    /\ o.contributions = contributions
    /\ o.next_campaign_id = next_campaign_id

\* C1: the balances of all accounts, the escrow account included, add up to
\* the total supply, and no balance is negative, whatever calls were made.
C1_BalancesSumToSupply ==
    /\ SumOver(balances, Accounts) = total_supply
    /\ \A x \in Accounts : balances[x] >= 0

\* Tokens were minted, escrowed, and partly refunded.
C1_Witness ==
    /\ balances[Escrow] > 0
    /\ \E x \in Users : balances[x] > 0
    /\ \E id \in Stored : Refunded(id) > 0

\* C2 as stated: for every campaign the contribution entries add up to raised
\* in every state, also after claim_refund.
C2_EntriesSumToRaised ==
    \A id \in Stored : Contributed(id) = campaigns[id + 1].raised

\* C2 as amended: for every campaign the contribution entries and the refunds
\* paid from it add up to raised; the entries alone do until the first refund.
C2_EntriesAndRefundsSumToRaised ==
    \A id \in Stored :
        /\ Contributed(id) + Refunded(id) = campaigns[id + 1].raised
        /\ Refunded(id) = 0 => Contributed(id) = campaigns[id + 1].raised

\* One contributor was refunded while another still holds an entry.
C2_Witness ==
    \E id \in Stored : Refunded(id) > 0 /\ Contributed(id) > 0

\* The escrowed tokens owed by a campaign: raised until it is completed, the
\* entries still to refund once it is completed with raised < goal.
Owed(id) ==
    LET campaign == campaigns[id + 1]
    IN  IF ~campaign.completed THEN campaign.raised
        ELSE IF campaign.raised < campaign.goal THEN Contributed(id)
        ELSE 0

\* C3: the escrow balance covers raised of every campaign not yet completed
\* and every entry still to be refunded of the completed, failed campaigns.
C3_EscrowCoversOwed ==
    balances[Escrow] >= SumOver([id \in Stored |-> Owed(id)], Stored)

\* A pending payout and a pending refund share the escrow account.
C3_Witness ==
    \E i, j \in Stored :
        /\ ~campaigns[i + 1].completed /\ campaigns[i + 1].raised > 0
        /\ campaigns[j + 1].completed /\ Owed(j) > 0

\* C4: a create_campaign, contribute, finalize or claim_refund that returns
\* an error leaves the storage of both contracts as it was and emits nothing.
C4_ErrorsChangeNothing ==
    /\ \A caller \in Users, title \in Titles, goal \in Amounts, deadline \in Times :
         LET o == create_campaign(caller, title, title, goal, deadline)
         IN  o.res # "Ok" => Untouched(o) /\ o.events = <<>>
    /\ \A caller \in Users, id \in Ids, amount \in Amounts :
         LET o == contribute(caller, id, amount)
         IN  o.res # "Ok" => Untouched(o) /\ o.events = <<>>
    /\ \A caller \in Users, id \in Ids :
         /\ LET o == finalize(caller, id)
            IN  o.res # "Ok" => Untouched(o) /\ o.events = <<>>
         /\ LET o == claim_refund(caller, id)
            IN  o.res # "Ok" => Untouched(o) /\ o.events = <<>>

\* On a funded, live campaign the token refuses a contribution for want of
\* balance, the owner finalizes too early and a stranger claims a refund.
C4_Witness ==
    \E id \in Stored, x \in Users, amount \in Amounts :
        /\ campaigns[id + 1].raised > 0
        /\ contribute(x, id, amount).res = "InsufficientBalance"
        /\ finalize(campaigns[id + 1].owner, id).res = "DeadlineNotReached"
        /\ claim_refund(x, id).res = "CampaignNotCompleted"

\* Some successful finalize of the campaign is the step being taken.
FinalizeStep(id) ==
    \E caller \in Users :
        LET o == finalize(caller, id)
        IN  o.res = "Ok" /\ campaigns' = o.campaigns

\* C5 (steps): no step removes a campaign or resets completed, and completed
\* is set only by a step that is a successful finalize of that campaign.
C5_CompletedSteps ==
    /\ Len(campaigns') >= Len(campaigns)
    /\ \A id \in Stored :
         /\ campaigns[id + 1].completed => campaigns'[id + 1].completed
         /\ ~campaigns[id + 1].completed /\ campaigns'[id + 1].completed
               => FinalizeStep(id)

\* C5 (states): a campaign is completed exactly when one finalize succeeded
\* on it, never two, and the owner's finalize on it fails CampaignCompleted.
C5_CompletedStates ==
    \A id \in Ids :
        /\ Len(finalized[id]) <= 1
        /\ id \in Stored =>
             /\ campaigns[id + 1].completed <=> Len(finalized[id]) = 1
             /\ campaigns[id + 1].completed =>
                   finalize(campaigns[id + 1].owner, id)
                       = Rejected("CampaignCompleted")

\* C5: completed goes from false to true at most once, only by a successful
\* finalize, and is never set back; the owner's finalize on a completed
\* campaign fails with CampaignCompleted.
C5_CompletedOnce == [](C5_CompletedStates) /\ [][C5_CompletedSteps]_vars

\* A campaign was finalized and more calls were made on it afterwards.
C5_Witness ==
    \E id \in Stored :
        /\ campaigns[id + 1].completed
        /\ Len(finalized[id]) = 1
        /\ Refunded(id) > 0

\* C6: on every stored campaign a finalize by anyone but its owner fails with
\* OnlyOwner and changes nothing, whatever the time and the completed flag.
C6_OnlyOwnerFinalizes ==
    \A id \in Stored, caller \in Users :
        caller # campaigns[id + 1].owner
            => finalize(caller, id) = Rejected("OnlyOwner")

\* A completed campaign past its deadline, with a non-owner to call finalize.
C6_Witness ==
    \E id \in Stored, caller \in Users :
        /\ caller # campaigns[id + 1].owner
        /\ campaigns[id + 1].completed
        /\ now > campaigns[id + 1].deadline
        /\ finalize(caller, id).res = "OnlyOwner"

\* C7: once claim_refund succeeded for a (campaign, contributor) pair every
\* later claim_refund of the pair fails with NoContribution and changes
\* nothing; no pair is refunded twice.
C7_RefundedOnce ==
    \A id \in Ids, x \in Users :
        /\ Len(refunded[<<id, x>>]) <= 1
        /\ refunded[<<id, x>>] # <<>>
              => claim_refund(x, id) = Rejected("NoContribution")

\* One contributor was refunded, another of the same campaign can still claim.
C7_Witness ==
    \E id \in Stored, x, y \in Users :
        /\ refunded[<<id, x>>] # <<>>
        /\ claim_refund(x, id).res = "NoContribution"
        /\ claim_refund(y, id).res = "Ok"

\* C8: transfer, transfer_from, approve, create_campaign, contribute, finalize
\* and claim_refund leave total_supply as it is; mint adds exactly the minted
\* amount when it succeeds and nothing when it fails.
C8_OnlyMintChangesSupply ==
    /\ \A x, y \in Accounts, z \in Accounts, amount \in Amounts :
         /\ transfer(balances, allowances, total_supply, x, y, amount)
               .total_supply = total_supply
         /\ approve(balances, allowances, total_supply, x, y, amount)
               .total_supply = total_supply
         /\ transfer_from(balances, allowances, total_supply, x, y, z, amount)
               .total_supply = total_supply
    /\ \A caller \in Users, id \in Ids, amount \in Amounts :
         /\ contribute(caller, id, amount).total_supply = total_supply
         /\ finalize(caller, id).total_supply = total_supply
         /\ claim_refund(caller, id).total_supply = total_supply
    /\ \A caller \in Users, title \in Titles, goal \in Amounts, deadline \in Times :
         create_campaign(caller, title, title, goal, deadline).total_supply
             = total_supply
    /\ \A to \in Accounts, amount \in Amounts :
         LET t == mint(balances, allowances, total_supply, to, amount)
         IN  t.total_supply =
                 IF t.res = "Ok" THEN total_supply + amount ELSE total_supply

\* Tokens are in circulation: a mint can still succeed, another overflows, and
\* a contribution, a payout or refund are possible.
C8_Witness ==
    /\ total_supply > 0
    /\ \E to \in Accounts, amount \in Amounts :
          /\ amount > 0
          /\ mint(balances, allowances, total_supply, to, amount).res = "Ok"
    /\ \E to \in Accounts, amount \in Amounts :
          mint(balances, allowances, total_supply, to, amount).res = "Overflow"
    /\ \E caller \in Users, id \in Stored :
          /\ claim_refund(caller, id).res = "Ok"
          /\ claim_refund(caller, id).balances # balances

\* C9: while no claim_refund has succeeded on a campaign, raised equals the
\* sum of its contribution entries, whatever contribute calls were made.
C9_RaisedIsSumBeforeRefunds ==
    \A id \in Stored :
        NoRefundYet(id) => campaigns[id + 1].raised = Contributed(id)

\* Two contributors hold entries of a campaign nobody was refunded from, and
\* one of them contributed more than once.
C9_Witness ==
    \E id \in Stored :
        /\ NoRefundYet(id)
        /\ \A x \in Users : contributions[<<id, x>>] > 0
        /\ \E x \in Users : contributions[<<id, x>>] > 1

\* C10: a successful finalize of a campaign with raised >= goal marks it
\* completed, moves exactly raised from the escrow account to the owner,
\* leaves the other balances alone and emits CampaignFinalized, success true.
C10_SuccessPaysRaised ==
    \A id \in Stored, caller \in Users :
        LET campaign == campaigns[id + 1]
            o == finalize(caller, id)
        IN  o.res = "Ok" /\ campaign.raised >= campaign.goal =>
              /\ o.campaigns[id + 1].completed
              /\ o.balances[campaign.owner]
                     = balances[campaign.owner] + campaign.raised
              /\ o.balances[Escrow] = balances[Escrow] - campaign.raised
              /\ \A x \in Accounts \ {campaign.owner, Escrow} :
                     o.balances[x] = balances[x]
              /\ o.events = << [type |-> "CampaignFinalized",
                                campaign_id |-> id, success |-> TRUE] >>

\* An over-funded campaign with two contributors was finalized and the owner
\* was paid all of raised.
C10_Witness ==
    \E id \in Stored :
        /\ campaigns[id + 1].raised > campaigns[id + 1].goal
        /\ \A x \in Users : contributions[<<id, x>>] > 0
        /\ finalized[id] = << [success |-> TRUE,
                               paid |-> campaigns[id + 1].raised] >>
        /\ balances[campaigns[id + 1].owner] >= campaigns[id + 1].raised

\* C11: a successful finalize of a campaign with raised < goal marks it
\* completed, changes no balance and no allowance, and emits
\* CampaignFinalized with success false.
C11_FailureMovesNothing ==
    \A id \in Stored, caller \in Users :
        LET campaign == campaigns[id + 1]
            o == finalize(caller, id)
        IN  o.res = "Ok" /\ campaign.raised < campaign.goal =>
              /\ o.campaigns[id + 1].completed
              /\ o.balances = balances
              /\ o.allowances = allowances
              /\ o.events = << [type |-> "CampaignFinalized",
                                campaign_id |-> id, success |-> FALSE] >>

\* A funded campaign short of its goal was finalized; its funds are escrowed.
C11_Witness ==
    \E id \in Stored :
        /\ campaigns[id + 1].completed
        /\ campaigns[id + 1].raised > 0
        /\ finalized[id] = << [success |-> FALSE, paid |-> 0] >>
        /\ balances[Escrow] = campaigns[id + 1].raised

\* C12 (states): a successful claim_refund pays the caller's entry from the
\* escrow account to the caller, zeroes that entry alone and emits
\* RefundClaimed with that amount; a refunded pair holds no entry.
C12_RefundStates ==
    \A id \in Stored, caller \in Users :
        LET contribution == contributions[<<id, caller>>]
            o == claim_refund(caller, id)
        IN  /\ refunded[<<id, caller>>] # <<>> => contribution = 0
            /\ o.res = "Ok" =>
                 /\ contribution > 0
                 /\ o.balances[Escrow] = balances[Escrow] - contribution
                 /\ o.balances[caller] = balances[caller] + contribution
                 /\ \A x \in Accounts \ {Escrow, caller} :
                        o.balances[x] = balances[x]
                 /\ o.contributions[<<id, caller>>] = 0
                 /\ \A p \in DOMAIN contributions \ {<<id, caller>>} :
                        o.contributions[p] = contributions[p]
                 /\ o.events = << [type |-> "RefundClaimed", campaign_id |-> id,
                                   contributor |-> caller,
                                   amount |-> contribution] >>

\* C12 (steps): an entry changes only by its contributor's successful
\* contribute, which adds the amount, or successful claim_refund, which
\* zeroes it: the entry is the sum of the amounts contributed.
C12_EntrySteps ==
    \A p \in DOMAIN contributions :
        contributions'[p] # contributions[p] =>
            \/ \E amount \in Amounts :
                  /\ contribute(p[2], p[1], amount).res = "Ok"
                  /\ contributions' = contribute(p[2], p[1], amount).contributions
                  /\ contributions'[p] = contributions[p] + amount
            \/ /\ claim_refund(p[2], p[1]).res = "Ok"
               /\ contributions' = claim_refund(p[2], p[1]).contributions
               /\ refunded'[p] = Append(refunded[p], contributions[p])

\* C12: a successful claim_refund(caller, c) moves exactly the entry
\* (c, caller), the sum of what caller contributed to c, from the escrow
\* account to caller, zeroes that entry only and emits RefundClaimed with it.
C12_RefundPaysEntry == [](C12_RefundStates) /\ [][C12_EntrySteps]_vars

\* A contributor of 2 to a failed campaign was refunded 2.
C12_Witness ==
    \E id \in Stored, x \in Users :
        /\ refunded[<<id, x>>] = <<2>>
        /\ campaigns[id + 1].raised >= 2
        /\ balances[x] >= 2

\* C13: a successful contribute takes amount from the caller's balance and
\* from the caller's allowance to the escrow account, and adds amount to the
\* escrow balance, to raised and to the caller's entry, in one step.
C13_ContributeMovesAmount ==
    \A id \in Stored, caller \in Users, amount \in Amounts :
        LET o == contribute(caller, id, amount)
        IN  o.res = "Ok" =>
              /\ o.balances[caller] = balances[caller] - amount
              /\ o.balances[Escrow] = balances[Escrow] + amount
              /\ o.allowances[<<caller, Escrow>>]
                     = allowances[<<caller, Escrow>>] - amount
              /\ o.campaigns[id + 1].raised = campaigns[id + 1].raised + amount
              /\ o.contributions[<<id, caller>>]
                     = contributions[<<id, caller>>] + amount

\* A contributor who already holds an entry can contribute again.
C13_Witness ==
    \E id \in Stored, x \in Users, amount \in Amounts :
        /\ amount > 0
        /\ contributions[<<id, x>>] > 0
        /\ contribute(x, id, amount).res = "Ok"

\* C14: on a stored, not completed campaign contribute fails with
\* DeadlineReached and changes nothing when now > deadline, and is not
\* rejected for the deadline when now <= deadline.
C14_ContributeDeadline ==
    \A id \in Stored, caller \in Users, amount \in Amounts :
        ~campaigns[id + 1].completed =>
            IF now > campaigns[id + 1].deadline
            THEN contribute(caller, id, amount) = Rejected("DeadlineReached")
            ELSE contribute(caller, id, amount).res # "DeadlineReached"

\* Past the deadline of a funded, open campaign, a caller with balance and
\* allowance is turned away.
C14_Witness ==
    \E id \in Stored, x \in Users :
        /\ ~campaigns[id + 1].completed
        /\ now > campaigns[id + 1].deadline
        /\ campaigns[id + 1].raised > 0
        /\ balances[x] > 0 /\ allowances[<<x, Escrow>>] > 0
        /\ contribute(x, id, 1).res = "DeadlineReached"

\* C15: the owner's finalize of a not completed campaign with now <= deadline
\* fails with DeadlineNotReached and changes nothing; no campaign is
\* completed at a time that is not after its deadline.
C15_FinalizeDeadline ==
    \A id \in Stored :
        /\ ~campaigns[id + 1].completed /\ now <= campaigns[id + 1].deadline
              => finalize(campaigns[id + 1].owner, id)
                     = Rejected("DeadlineNotReached")
        /\ campaigns[id + 1].completed => now > campaigns[id + 1].deadline

\* At the deadline itself the owner of a funded campaign cannot finalize.
C15_Witness ==
    \E id \in Stored :
        /\ ~campaigns[id + 1].completed
        /\ now = campaigns[id + 1].deadline
        /\ campaigns[id + 1].raised > 0
        /\ finalize(campaigns[id + 1].owner, id).res = "DeadlineNotReached"

\* C16: on a completed campaign with raised >= goal claim_refund fails with
\* CampaignSuccessful for every caller, entry or not, and changes nothing; no
\* refund was ever paid from a campaign finalized as successful.
C16_NoRefundAfterSuccess ==
    \A id \in Stored :
        LET campaign == campaigns[id + 1]
        IN  /\ campaign.completed /\ campaign.raised >= campaign.goal =>
                 \A caller \in Users :
                     claim_refund(caller, id) = Rejected("CampaignSuccessful")
            /\ (\E k \in DOMAIN finalized[id] : finalized[id][k].success)
                 => NoRefundYet(id)

\* A successful campaign was paid out; a contributor and a stranger to it
\* ask for a refund.
C16_Witness ==
    \E id \in Stored, x, y \in Users :
        /\ finalized[id] = << [success |-> TRUE,
                               paid |-> campaigns[id + 1].raised] >>
        /\ contributions[<<id, x>>] > 0
        /\ contributions[<<id, y>>] = 0
        /\ claim_refund(x, id).res = "CampaignSuccessful"
        /\ claim_refund(y, id).res = "CampaignSuccessful"

\* C17: on a campaign that is not completed claim_refund fails with
\* CampaignNotCompleted for every caller, also past the deadline with
\* raised < goal; every refund paid follows a successful finalize.
C17_NoRefundBeforeFinalize ==
    \A id \in Stored :
        /\ ~campaigns[id + 1].completed =>
              \A caller \in Users :
                  claim_refund(caller, id) = Rejected("CampaignNotCompleted")
        /\ ~NoRefundYet(id) => Len(finalized[id]) = 1

\* Past the deadline of a campaign short of its goal and not yet finalized,
\* a contributor asks for a refund.
C17_Witness ==
    \E id \in Stored, x \in Users :
        /\ ~campaigns[id + 1].completed
        /\ now > campaigns[id + 1].deadline
        /\ campaigns[id + 1].raised < campaigns[id + 1].goal
        /\ contributions[<<id, x>>] > 0
        /\ claim_refund(x, id).res = "CampaignNotCompleted"

\* C18: create_campaign fails with InvalidParameters, storing nothing,
\* keeping the id counter and emitting nothing, exactly when goal = 0 or
\* deadline <= now; otherwise it appends a campaign owned by the caller with
\* raised 0, completed false, the given goal and deadline, and returns its id.
C18_CreateCampaign ==
    \A caller \in Users, title \in Titles, goal \in Amounts, deadline \in Times :
        LET o == create_campaign(caller, title, title, goal, deadline)
            id == create_campaign_returns(goal, deadline)
        IN  IF goal = 0 \/ deadline <= now
            THEN o = Rejected("InvalidParameters") /\ id = None
            ELSE /\ o.res = "Ok"
                 /\ Len(o.campaigns) = Len(campaigns) + 1
                 /\ SubSeq(o.campaigns, 1, Len(campaigns)) = campaigns
                 /\ o.campaigns[Len(o.campaigns)] =
                        [id |-> id, title |-> title, description |-> title,
                         goal |-> goal, deadline |-> deadline, owner |-> caller,
                         raised |-> 0, completed |-> FALSE]
                 /\ id = next_campaign_id

\* A campaign was created at a later time than deployment; creating with a
\* deadline of that time or earlier fails, with a later one succeeds.
C18_Witness ==
    /\ Len(campaigns) = 1
    /\ campaigns[1].owner = "bob" /\ campaigns[1].goal = MaxU256
    /\ campaigns[1].deadline = now /\ now > 0
    /\ create_campaign("alice", "t", "t", 1, now).res = "InvalidParameters"
    /\ create_campaign("alice", "t", "t", 1, now + 1).res = "Ok"

\* C19 (states): the campaign at position i has id i, get_campaign_count is
\* the id counter, and create_campaign advances the counter by one when it
\* succeeds and not at all when it fails.
C19_IdStates ==
    /\ \A id \in Stored : campaigns[id + 1].id = id
    /\ get_campaign_count = next_campaign_id
    /\ \A caller \in Users, title \in Titles, goal \in Amounts, deadline \in Times :
         LET o == create_campaign(caller, title, title, goal, deadline)
         IN  o.next_campaign_id =
                 IF o.res = "Ok" THEN next_campaign_id + 1 ELSE next_campaign_id

\* C19 (steps): the id counter never decreases and no stored campaign
\* changes its id.
C19_IdSteps ==
    /\ next_campaign_id' >= next_campaign_id
    /\ \A id \in Stored :
         id + 1 \in DOMAIN campaigns' /\ campaigns'[id + 1].id = id

\* C19: ids are assigned 0, 1, 2, ... by the successful create_campaign
\* calls and never reused.
C19_SequentialIds == [](C19_IdStates) /\ [][C19_IdSteps]_vars

\* Two campaigns were created; the first has since been finalized and the
\* second contributed to.
C19_Witness ==
    /\ Len(campaigns) = 2
    /\ next_campaign_id = 2
    /\ campaigns[1].completed
    /\ campaigns[2].raised > 0

\* C20 (steps): no step removes a campaign or changes the id, owner, goal,
\* deadline of a stored one.
C20_FixedSteps ==
    \A id \in Stored :
        /\ id + 1 \in DOMAIN campaigns'
        /\ campaigns'[id + 1].id = campaigns[id + 1].id
        /\ campaigns'[id + 1].owner = campaigns[id + 1].owner
        /\ campaigns'[id + 1].goal = campaigns[id + 1].goal
        /\ campaigns'[id + 1].deadline = campaigns[id + 1].deadline

\* C20 (states): every stored campaign has a goal above zero.
C20_GoalPositive == \A id \in Stored : campaigns[id + 1].goal > 0

\* C20: every stored campaign has goal > 0, keeps its id, owner, goal and
\* deadline for ever, and is never removed.
C20_CampaignsFixed == [](C20_GoalPositive) /\ [][C20_FixedSteps]_vars

\* Two campaigns of different owners; the first was contributed to,
\* finalized and refunded from.
C20_Witness ==
    /\ Len(campaigns) = 2
    /\ campaigns[1].owner # campaigns[2].owner
    /\ campaigns[1].completed
    /\ Refunded(0) > 0
    /\ campaigns[2].raised > 0

\* Some successful contribute to the campaign is the step being taken.
ContributeStep(id) ==
    \E caller \in Users, amount \in Amounts :
        LET o == contribute(caller, id, amount)
        IN  o.res = "Ok" /\ campaigns' = o.campaigns

\* C21 (steps): raised never decreases, changes only by a successful
\* contribute to a campaign that is not completed, and is frozen afterwards.
C21_RaisedSteps ==
    \A id \in Stored :
        /\ id + 1 \in DOMAIN campaigns'
        /\ campaigns'[id + 1].raised >= campaigns[id + 1].raised
        /\ campaigns'[id + 1].raised # campaigns[id + 1].raised
              => ~campaigns[id + 1].completed /\ ContributeStep(id)

\* C21 (states): contribute to a completed campaign fails with
\* CampaignCompleted and changes nothing.
C21_ClosedStates ==
    \A id \in Stored, caller \in Users, amount \in Amounts :
        campaigns[id + 1].completed
            => contribute(caller, id, amount) = Rejected("CampaignCompleted")

\* C21: raised only grows, only by successful contribute calls made while the
\* campaign is not completed; a completed campaign refuses contribute with
\* CampaignCompleted, so its raised is frozen.
C21_RaisedOnlyGrows == [](C21_ClosedStates) /\ [][C21_RaisedSteps]_vars

\* A completed, funded campaign and a caller with balance and allowance.
C21_Witness ==
    \E id \in Stored, x \in Users :
        /\ campaigns[id + 1].completed
        /\ campaigns[id + 1].raised > 0
        /\ balances[x] > 0 /\ allowances[<<x, Escrow>>] > 0
        /\ contribute(x, id, 1).res = "CampaignCompleted"

\* C22 (states): the success value finalize decided with is the value of
\* raised >= goal in every later state, and claim_refund answers by it.
C22_OutcomeStates ==
    \A id \in Stored :
        finalized[id] # <<>> =>
            LET campaign == campaigns[id + 1]
                success == finalized[id][1].success
            IN  /\ success <=> campaign.raised >= campaign.goal
                /\ \A caller \in Users :
                      success <=>
                          claim_refund(caller, id).res = "CampaignSuccessful"

\* C22 (steps): raised and goal of a completed campaign do not change.
C22_OutcomeSteps ==
    \A id \in Stored :
        campaigns[id + 1].completed =>
            /\ id + 1 \in DOMAIN campaigns'
            /\ campaigns'[id + 1].raised = campaigns[id + 1].raised
            /\ campaigns'[id + 1].goal = campaigns[id + 1].goal

\* C22: the outcome of a completed campaign is fixed at finalization: the
\* value of raised >= goal finalize used is what claim_refund sees for ever.
C22_OutcomeFixed == [](C22_OutcomeStates) /\ [][C22_OutcomeSteps]_vars

\* A campaign was finalized as failed, a refund was paid and another is due,
\* while its contributors hold tokens and allowance to contribute with.
C22_Witness ==
    \E id \in Stored, x \in Users :
        /\ finalized[id] # <<>> /\ ~finalized[id][1].success
        /\ Refunded(id) > 0 /\ Contributed(id) > 0
        /\ balances[x] > 0 /\ allowances[<<x, Escrow>>] > 0

\* C23 (states): each of the four messages emits exactly one event when it
\* succeeds, of its own kind and with the values of the call, and no event
\* when it fails.
C23_EventStates ==
    /\ \A caller \in Users, title \in Titles, goal \in Amounts, deadline \in Times :
         LET o == create_campaign(caller, title, title, goal, deadline)
         IN  o.events =
                 IF o.res = "Ok"
                 THEN << [type |-> "CampaignCreated", id |-> next_campaign_id,
                          owner |-> caller, goal |-> goal,
                          deadline |-> deadline] >>
                 ELSE << >>
    /\ \A caller \in Users, id \in Ids, amount \in Amounts :
         LET o == contribute(caller, id, amount)
         IN  o.events =
                 IF o.res = "Ok"
                 THEN << [type |-> "ContributionMade", campaign_id |-> id,
                          contributor |-> caller, amount |-> amount] >>
                 ELSE << >>
    /\ \A caller \in Users, id \in Ids :
         LET o == finalize(caller, id)
         IN  o.events =
                 IF o.res = "Ok"
                 THEN << [type |-> "CampaignFinalized", campaign_id |-> id,
                          success |-> campaigns[id + 1].raised
                                          >= campaigns[id + 1].goal] >>
                 ELSE << >>
    /\ \A caller \in Users, id \in Ids :
         LET o == claim_refund(caller, id)
         IN  o.events =
                 IF o.res = "Ok"
                 THEN << [type |-> "RefundClaimed", campaign_id |-> id,
                          contributor |-> caller,
                          amount |-> contributions[<<id, caller>>]] >>
                 ELSE << >>

\* C23 (steps): the record of CampaignFinalized and RefundClaimed events only
\* grows, by the one event of a successful finalize or claim_refund.
C23_EventSteps ==
    /\ \A id \in Ids :
         \/ finalized'[id] = finalized[id]
         \/ \E caller \in Users :
               LET o == finalize(caller, id)
               IN  /\ o.res = "Ok"
                   /\ Len(finalized'[id]) = Len(finalized[id]) + 1
                   /\ SubSeq(finalized'[id], 1, Len(finalized[id])) = finalized[id]
                   /\ finalized'[id][Len(finalized'[id])].success
                          = o.events[1].success
    /\ \A p \in DOMAIN refunded :
         \/ refunded'[p] = refunded[p]
         \/ LET o == claim_refund(p[2], p[1])
            IN  /\ o.res = "Ok"
                /\ refunded'[p] = Append(refunded[p], o.events[1].amount)

\* C23: the events emitted form an append-only log that grows by one event,
\* carrying the call's values, for each successful create_campaign,
\* contribute, finalize and claim_refund, and by none for a failed call.
C23_OneEventPerSuccess == [](C23_EventStates) /\ [][C23_EventSteps]_vars

\* After a create, contributions, a finalize and a refund, calls of all four
\* messages that succeed and that fail are possible or were made.
C23_Witness ==
    \E id \in Stored, x, y \in Users :
        /\ Len(finalized[id]) = 1
        /\ Len(refunded[<<id, x>>]) = 1
        /\ claim_refund(y, id).res = "Ok"
        /\ claim_refund(x, id).res = "NoContribution"
        /\ finalize(campaigns[id + 1].owner, id).res = "CampaignCompleted"

\* C24: get_campaign fails with CampaignNotFound exactly for the ids from
\* the campaign count on and otherwise returns the campaign of that id;
\* get_contribution is 0 for every pair of a campaign id out of range;
\* get_all_campaigns returns the stored campaigns in id order and
\* get_campaign_count their number. The queries write nothing.
C24_Queries ==
    /\ \A id \in 0..MaxCampaigns :
         /\ get_campaign(id).res = "CampaignNotFound" <=> id >= get_campaign_count
         /\ get_campaign(id).res # "CampaignNotFound" =>
               /\ get_campaign(id).res = "Ok"
               /\ get_campaign(id).value = campaigns[id + 1]
               /\ get_campaign(id).value.id = id
    /\ \A id \in Ids, x \in Users :
         /\ get_contribution(id, x) >= 0
         /\ id >= get_campaign_count => get_contribution(id, x) = 0
         /\ get_contribution(id, x) > 0 => get_campaign(id).res = "Ok"
    /\ get_all_campaigns = campaigns
    /\ Len(get_all_campaigns) = get_campaign_count

\* One campaign is stored and contributed to; id 0 is found, id 1 is not
\* and has no contribution.
C24_Witness ==
    \E x \in Users :
        /\ get_campaign_count = 1
        /\ get_campaign(0).res = "Ok" /\ get_campaign(0).value.raised > 0
        /\ get_campaign(1).res = "CampaignNotFound"
        /\ get_contribution(0, x) > 0 /\ get_contribution(1, x) = 0
        /\ Len(get_all_campaigns) = 1

\* C25: contributions are not capped at the goal: on a not completed
\* campaign with now <= deadline and raised >= goal a contribute succeeds
\* whenever the token transfer does, and a campaign finalized as successful
\* paid its owner all of raised, be it above the goal.
C25_OverFunding ==
    \A id \in Stored :
        LET campaign == campaigns[id + 1]
        IN  /\ \A caller \in Users, amount \in Amounts :
                  /\ ~campaign.completed
                  /\ now <= campaign.deadline
                  /\ campaign.raised >= campaign.goal
                  /\ transfer_from(balances, allowances, total_supply,
                                   Escrow, caller, Escrow, amount).res = "Ok"
                  => contribute(caller, id, amount).res = "Ok"
            /\ finalized[id] # <<>> /\ finalized[id][1].success
                  => finalized[id][1].paid = campaign.raised

\* A campaign that raised more than its goal paid its owner all of it.
C25_Witness ==
    \E id \in Stored :
        /\ campaigns[id + 1].raised > campaigns[id + 1].goal
        /\ finalized[id] = << [success |-> TRUE,
                               paid |-> campaigns[id + 1].raised] >>
        /\ balances[campaigns[id + 1].owner] > campaigns[id + 1].goal

\* C26: a failing contribute reports the first failure in the order
\* CampaignNotFound, CampaignCompleted, DeadlineReached, the token's
\* InsufficientAllowance then InsufficientBalance, Overflow; a failing
\* claim_refund the first in the order CampaignNotFound,
\* CampaignNotCompleted, CampaignSuccessful, NoContribution.
C26_CheckOrder ==
    \A id \in Ids, caller \in Users, amount \in Amounts :
        LET c == contribute(caller, id, amount).res
            r == claim_refund(caller, id).res
        IN  IF id \notin Stored
            THEN c = "CampaignNotFound" /\ r = "CampaignNotFound"
            ELSE LET campaign == campaigns[id + 1]
                 IN  /\ campaign.completed => c = "CampaignCompleted"
                     /\ ~campaign.completed /\ now > campaign.deadline
                           => c = "DeadlineReached"
                     /\ ~campaign.completed /\ now <= campaign.deadline =>
                           IF allowances[<<caller, Escrow>>] < amount
                           THEN c = "InsufficientAllowance"
                           ELSE IF balances[caller] < amount
                           THEN c = "InsufficientBalance"
                           ELSE IF campaign.raised + amount > MaxU256
                           THEN c = "Overflow"
                           ELSE c = "Ok"
                     /\ ~campaign.completed => r = "CampaignNotCompleted"
                     /\ campaign.completed /\ campaign.raised >= campaign.goal
                           => r = "CampaignSuccessful"
                     /\ campaign.completed /\ campaign.raised < campaign.goal =>
                           IF contributions[<<id, caller>>] = 0
                           THEN r = "NoContribution"
                           ELSE r = "Ok"

\* A completed, successful campaign past its deadline and a caller with
\* neither allowance nor entry: several checks would fail, the first reports.
C26_Witness ==
    \E id \in Stored, x \in Users :
        /\ campaigns[id + 1].completed
        /\ campaigns[id + 1].raised >= campaigns[id + 1].goal
        /\ now > campaigns[id + 1].deadline
        /\ allowances[<<x, Escrow>>] = 0 /\ balances[x] = 0
        /\ contributions[<<id, x>>] = 0
        /\ contribute(x, id, 1).res = "CampaignCompleted"
        /\ claim_refund(x, id).res = "CampaignSuccessful"

\* C27: transfer_from fails with InsufficientAllowance when the allowance of
\* the spender is below amount, otherwise with InsufficientBalance when the
\* owner's balance is, both times changing nothing; on success that allowance
\* alone drops by amount, not below zero, and amount moves from owner to `to`.
C27_TransferFrom ==
    /\ \A p \in DOMAIN allowances : allowances[p] >= 0
    /\ \A spender \in Accounts, owner \in Accounts, to \in Accounts,
          amount \in Amounts :
         LET t == transfer_from(balances, allowances, total_supply,
                                spender, owner, to, amount)
         IN  IF allowances[<<owner, spender>>] < amount
             THEN t = TokenResult("InsufficientAllowance", balances,
                                  allowances, total_supply)
             ELSE IF balances[owner] < amount
             THEN t = TokenResult("InsufficientBalance", balances,
                                  allowances, total_supply)
             ELSE /\ t.res = "Ok"
                  /\ t.allowances[<<owner, spender>>]
                         = allowances[<<owner, spender>>] - amount
                  /\ t.allowances[<<owner, spender>>] >= 0
                  /\ \A p \in DOMAIN allowances \ {<<owner, spender>>} :
                         t.allowances[p] = allowances[p]
                  /\ \A x \in Accounts :
                         t.balances[x] = balances[x]
                             - (IF x = owner THEN amount ELSE 0)
                             + (IF x = to THEN amount ELSE 0)
                  /\ t.total_supply = total_supply

\* An owner whose allowance to a spender exceeds the balance, after part of
\* it was spent: either failure and a success are one call away.
C27_Witness ==
    \E owner \in Users, spender \in Users :
        /\ spender # owner
        /\ allowances[<<owner, spender>>] = 2
        /\ balances[owner] = 1
        /\ balances[spender] > 0
        /\ transfer_from(balances, allowances, total_supply,
                         spender, owner, Escrow, 1).res = "Ok"
        /\ transfer_from(balances, allowances, total_supply,
                         spender, owner, Escrow, 2).res = "InsufficientBalance"
        /\ transfer_from(balances, allowances, total_supply,
                         spender, owner, Escrow, 3).res = "InsufficientAllowance"

\* C28: mint, open to every caller, adds amount to the balance of `to` and
\* to total_supply and changes no other balance; it fails with Overflow and
\* changes nothing when the new balance or the new supply leaves the range.
C28_Mint ==
    \A to \in Accounts, amount \in Amounts :
        LET t == mint(balances, allowances, total_supply, to, amount)
        IN  IF balances[to] + amount > MaxU256 \/ total_supply + amount > MaxU256
            THEN t = TokenResult("Overflow", balances, allowances, total_supply)
            ELSE /\ t.res = "Ok"
                 /\ t.balances[to] = balances[to] + amount
                 /\ \A x \in Accounts \ {to} : t.balances[x] = balances[x]
                 /\ t.total_supply = total_supply + amount
                 /\ t.allowances = allowances
                 /\ t.balances[to] <= MaxU256 /\ t.total_supply <= MaxU256

\* Both users and the escrow account hold minted tokens, the supply is one
\* short of the range: a mint of 1 succeeds, a mint of 2 overflows.
C28_Witness ==
    /\ total_supply = MaxU256 - 1
    /\ \E x \in Users : balances[x] > 0
    /\ balances[Escrow] > 0
    /\ mint(balances, allowances, total_supply, Escrow, 1).res = "Ok"
    /\ mint(balances, allowances, total_supply, Escrow, 2).res = "Overflow"

\* C29: finalize and claim_refund never fail because of the token: the
\* escrow balance covers raised when the owner may finalize a campaign with
\* raised >= goal, and the entry when a contributor may claim; their only
\* errors are the four kinds each of them checks for.
C29_TokenNeverRefuses ==
    /\ \A id \in Ids, caller \in Users :
         /\ finalize(caller, id).res \in
                {"Ok", "CampaignNotFound", "OnlyOwner", "CampaignCompleted",
                 "DeadlineNotReached"}
         /\ claim_refund(caller, id).res \in
                {"Ok", "CampaignNotFound", "CampaignNotCompleted",
                 "CampaignSuccessful", "NoContribution"}
    /\ \A id \in Stored :
         LET campaign == campaigns[id + 1]
         IN  /\ /\ ~campaign.completed
                /\ now > campaign.deadline
                /\ campaign.raised >= campaign.goal
                => /\ balances[Escrow] >= campaign.raised
                   /\ finalize(campaign.owner, id).res = "Ok"
             /\ \A caller \in Users :
                   /\ campaign.completed
                   /\ campaign.raised < campaign.goal
                   /\ contributions[<<id, caller>>] > 0
                   => /\ balances[Escrow] >= contributions[<<id, caller>>]
                      /\ claim_refund(caller, id).res = "Ok"

\* A successful campaign awaits its payout while a failed one owes a refund
\* from the same escrow account.
C29_Witness ==
    \E i, j \in Stored, x \in Users :
        /\ campaigns[i + 1].raised > 0
        /\ finalize(campaigns[i + 1].owner, i).res = "Ok"
        /\ finalize(campaigns[i + 1].owner, i).balances # balances
        /\ campaigns[j + 1].completed
        /\ claim_refund(x, j).res = "Ok"

\* C30 (steps): the escrow balance drops only by a successful finalize of a
\* campaign with raised >= goal, by exactly raised, or by a successful
\* claim_refund on a completed campaign with raised < goal.
C30_EscrowSteps ==
    balances'[Escrow] < balances[Escrow] =>
        \E id \in Stored, caller \in Users :
            LET campaign == campaigns[id + 1]
            IN  \/ /\ finalize(caller, id).res = "Ok"
                   /\ balances' = finalize(caller, id).balances
                   /\ campaign.raised >= campaign.goal
                   /\ finalized[id] = <<>>
                   /\ balances[Escrow] - balances'[Escrow] = campaign.raised
                \/ /\ claim_refund(caller, id).res = "Ok"
                   /\ balances' = claim_refund(caller, id).balances
                   /\ campaign.completed
                   /\ campaign.raised < campaign.goal
                   /\ balances[Escrow] - balances'[Escrow]
                          = contributions[<<id, caller>>]

\* C30 (states): a campaign is finalized at most once; a successful one paid
\* raised and never refunded; a refund comes from a campaign finalized as
\* failed, which paid its owner nothing; refunds add up to raised at most.
C30_EscrowStates ==
    \A id \in Ids :
        /\ Len(finalized[id]) <= 1
        /\ ~NoRefundYet(id) => finalized[id] = << [success |-> FALSE, paid |-> 0] >>
        /\ id \in Stored =>
             /\ Refunded(id) <= campaigns[id + 1].raised
             /\ finalized[id] # <<>> =>
                   IF finalized[id][1].success
                   THEN /\ finalized[id][1].paid = campaigns[id + 1].raised
                        /\ campaigns[id + 1].raised >= campaigns[id + 1].goal
                        /\ NoRefundYet(id)
                   ELSE /\ finalized[id][1].paid = 0
                        /\ campaigns[id + 1].raised < campaigns[id + 1].goal

\* C30: per campaign the owner's payout and the refunds exclude each other
\* and are bounded; tokens leave the escrow account in no other way.
C30_PayoutOrRefunds == [](C30_EscrowStates) /\ [][C30_EscrowSteps]_vars

\* One campaign paid its owner, another refunded a contributor.
C30_Witness ==
    \E i, j \in Stored :
        /\ finalized[i] # <<>> /\ finalized[i][1].success
        /\ finalized[i][1].paid > 0
        /\ Refunded(j) > 0

\* C31: contribute, finalize and claim_refund on a campaign leave the
\* record of every other campaign and the entries of every other campaign as
\* they are; contribute and claim_refund leave the entries of the other
\* contributors of the campaign as they are too.
C31_OtherCampaignsUntouched ==
    \A id \in Ids, caller \in Users :
        LET Kept(o) ==
                /\ Len(o.campaigns) = Len(campaigns)
                /\ \A other \in Stored \ {id} :
                       o.campaigns[other + 1] = campaigns[other + 1]
                /\ \A p \in DOMAIN contributions \ {<<id, caller>>} :
                       o.contributions[p] = contributions[p]
        IN  /\ \A amount \in Amounts : Kept(contribute(caller, id, amount))
            /\ Kept(finalize(caller, id))
            /\ finalize(caller, id).contributions = contributions
            /\ Kept(claim_refund(caller, id))

\* A contributor to two campaigns, one of them shared with another
\* contributor, can claim a refund from one while the other is open.
C31_Witness ==
    \E c, d \in Stored, x, y \in Users :
        /\ c # d /\ x # y
        /\ contributions[<<c, x>>] > 0 /\ contributions[<<c, y>>] > 0
        /\ contributions[<<d, x>>] > 0
        /\ claim_refund(x, c).res = "Ok"
        /\ ~campaigns[d + 1].completed

\* The campaign was finalized with raised < goal.
Failed(id) == \E k \in DOMAIN finalized[id] : ~finalized[id][k].success

\* Every entry of the campaign is zero and what was paid back is raised.
AllRefunded(id) ==
    IF id \in Stored
    THEN /\ \A x \in Users : contributions[<<id, x>>] = 0
         /\ Refunded(id) = campaigns[id + 1].raised
    ELSE FALSE

\* C32 (states): on a campaign finalized with raised < goal claim_refund
\* succeeds for every contributor with a non-zero entry.
C32_RefundEnabled ==
    \A id \in Stored, x \in Users :
        Failed(id) /\ contributions[<<id, x>>] > 0
            => claim_refund(x, id).res = "Ok"

\* C32: after a campaign was finalized with raised < goal every contributor
\* with an entry can claim, in any order and whatever happens elsewhere; if
\* no possible refund is put off for ever, all its entries become 0 and the
\* refunds paid add up to raised.
C32_AllRefundedInTheEnd ==
    /\ [](C32_RefundEnabled)
    /\ \A id \in Ids : Failed(id) ~> AllRefunded(id)

\* Both contributors of a failed campaign were refunded, all of raised,
\* while another campaign holds funds in the same escrow account.
C32_Witness ==
    \E id \in Stored :
        /\ Failed(id)
        /\ \E other \in Stored \ {id} : campaigns[other + 1].raised > 0
        /\ \A x \in Users : Len(refunded[<<id, x>>]) = 1
        /\ AllRefunded(id)

\* C33: the Overflow branch of contribute is never taken: raised of a
\* campaign that is not completed is at most the escrow balance, which is at
\* most total_supply, so raised + amount stays in the range whenever the
\* transfer_from of contribute succeeds.
C33_NoOverflow ==
    /\ balances[Escrow] <= total_supply /\ total_supply <= MaxU256
    /\ \A id \in Stored :
         LET campaign == campaigns[id + 1]
         IN  /\ ~campaign.completed => campaign.raised <= balances[Escrow]
             /\ \A caller \in Users, amount \in Amounts :
                  /\ contribute(caller, id, amount).res # "Overflow"
                  /\ /\ contribute_checks(caller, id) = "Ok"
                     /\ transfer_from(balances, allowances, total_supply,
                                      Escrow, caller, Escrow, amount).res = "Ok"
                     => checked_add(campaign.raised, amount) # None

\* A contribution that takes raised to the top of the range succeeds.
C33_Witness ==
    \E id \in Stored, x \in Users, amount \in Amounts :
        /\ amount > 0
        /\ campaigns[id + 1].raised > 0
        /\ campaigns[id + 1].raised + amount = MaxU256
        /\ contribute(x, id, amount).res = "Ok"

\* C34: every contribution entry is at most raised of its campaign, so the
\* unchecked contribution + amount of contribute stays in the range once the
\* checked raised + amount did.
C34_EntryAtMostRaised ==
    \A id \in Stored, x \in Users :
        /\ contributions[<<id, x>>] <= campaigns[id + 1].raised
        /\ \A amount \in Amounts :
             /\ contribute(x, id, amount).res # "Panic"
             /\ checked_add(campaigns[id + 1].raised, amount) # None
                   => contributions[<<id, x>>] + amount <= MaxU256

\* One contributor gave all a campaign raised, the whole range.
C34_Witness ==
    \E id \in Stored, x \in Users :
        /\ contributions[<<id, x>>] = MaxU256
        /\ campaigns[id + 1].raised = MaxU256

\* C35 (states): for a campaign that is not completed exactly one of the
\* two holds: contribute passes its checks, the owner's finalize passes its
\* checks; and past the deadline no contribute succeeds.
C35_WindowStates ==
    \A id \in Stored :
        LET campaign == campaigns[id + 1]
        IN  /\ ~campaign.completed =>
                 \A caller \in Users :
                     contribute_checks(caller, id) = "Ok"
                         <=> finalize_checks(campaign.owner, id) # "Ok"
            /\ now > campaign.deadline =>
                 \A caller \in Users, amount \in Amounts :
                     contribute(caller, id, amount).res # "Ok"

\* C35 (steps): the clock does not run backwards and no deadline moves, so a
\* campaign past its deadline stays past it.
C35_WindowSteps ==
    /\ now' >= now
    /\ \A id \in Stored :
         /\ id + 1 \in DOMAIN campaigns'
         /\ campaigns'[id + 1].deadline = campaigns[id + 1].deadline

\* C35: the time in which contribute is open (now <= deadline) and the time
\* in which the owner can finalize (now > deadline) are disjoint and cover
\* every time; no contribute succeeds once finalize has passed its deadline
\* check.
C35_DisjointWindows == [](C35_WindowStates) /\ [][C35_WindowSteps]_vars

\* Past the deadline of a funded campaign the owner can finalize and a
\* contributor with balance and allowance cannot contribute.
C35_Witness ==
    \E id \in Stored, x \in Users :
        /\ ~campaigns[id + 1].completed
        /\ campaigns[id + 1].raised > 0
        /\ balances[x] > 0 /\ allowances[<<x, Escrow>>] > 0
        /\ finalize_checks(campaigns[id + 1].owner, id) = "Ok"
        /\ contribute(x, id, 1).res = "DeadlineReached"


\* ------------------------------------------------------------ ContractCard

\* C36 (as claimed; the component does not keep it): when the connected user
\* owns at least one of the loaded campaigns, the "My Campaigns" tab lists
\* exactly the campaigns whose owner is the user's address, the same ones
\* myCampaignCount counts.
C36_MyTabListsOwnCampaigns ==
    myCampaignCount >= 1 => MyTab = myCampaigns

\* The failing case of C36: two campaigns are loaded, one of them owned by
\* the connected user; the label counts one and the tab shows both.
C36_Witness ==
    /\ Len(card.campaigns) = 2
    /\ myCampaignCount = 1
    /\ Len(MyTab) = 2
    /\ \E k \in DOMAIN MyTab : MyTab[k].owner # userEthAddress

\* Every refresh that was started has finished, and one was.
Settled ==
    /\ \A r \in Refreshes : card.refresh[r].at \in {"idle", "done"}
    /\ \E r \in Refreshes : card.refresh[r].at = "done"

\* C37 (as claimed; the component does not keep it): once
\* queryInkFundMeContract has finished, the count in the "Browse" label equals
\* the number of campaigns the tab displays, whatever happened between and to
\* its two queries.
C37_CountMatchesList ==
    Settled => BrowseLabel = Len(BrowseTab)

\* The failing case of C37: all refreshes are finished, the label says 0 and
\* the tab displays a campaign.
C37_Witness ==
    /\ Settled
    /\ BrowseLabel = 0
    /\ Len(BrowseTab) = 1

====
